---- MODULE Spec2Model ----
(***************************************************************************)
(* Model of the OpenNebula provider's XML attribute extraction:            *)
(* parseResponse / parseSubTree reading tokens from Go's encoding/xml      *)
(* Decoder (strict mode, the default of xml.NewDecoder).                   *)
(*                                                                         *)
(* The input document is a sequence of lexemes (start tag, end tag, text   *)
(* run, or a tag cut off by the end of the input).  The decoder            *)
(* reads it one lexeme per Token() call; `data` holds the lexemes of the   *)
(* input, `pos` how many of them the decoder has consumed.                 *)
(***************************************************************************)
EXTENDS Integers, Sequences, FiniteSets, TLC

\* ------------------------------------------------------------------ bounds
\* Most tags (start or end) the decoder is made to read.
MaxTags == 6
\* Most text runs the decoder is made to read.
MaxRuns == 2
\* Most lexemes parseResponse's loop is made to read before the root's start tag.
MaxScan == 3

\* -------------------------------------------------------------- constants
PathSeparator == "/"
ValueSepartor == <<" ">>
VmElementName == "VM"

\* ----------------------------------------------------------- input alphabet
\* Element names occurring in documents (never empty: the decoder rejects an
\* empty tag name), and the root names a caller may ask for.
Names == {"VM", "E"}
RootNames == {VmElementName, ""}

\* Raw text runs, as sequences of characters.
Texts == { <<" ">>, <<" ", "a">>, <<"b", "\n">> }

StartTag(n) == [k |-> "start", n |-> n, s |-> <<>>]
EndTag(n) == [k |-> "end", n |-> n, s |-> <<>>]
TextRun(s) == [k |-> "text", n |-> "", s |-> s]
CutTag == [k |-> "cut", n |-> "", s |-> <<>>]

Lexemes ==
    {StartTag(n) : n \in Names} \cup {EndTag(n) : n \in Names}
        \cup {TextRun(s) : s \in Texts}

VARIABLES
    startElement,   \* parseResponse's argument: the root name asked for
    data,            \* the input document, as far as it is determined
    pos,            \* number of lexemes of data the decoder has consumed
    ntags,          \* number of tags among the consumed lexemes
    exhausted,      \* the decoder has hit the end of the input
    stk,            \* the decoder's stack of open element names
    pc,             \* "scan" (parseResponse), "sub" (parseSubTree), "done"
                    \* (returned) or "panic" (index out of range, no return)
    attributes,     \* parseSubTree's map under construction
    path,           \* parseSubTree's path stack
    result,         \* the returned map: [nil |-> BOOLEAN, m |-> map]
    err             \* the returned error: "none" (nil), "EOF", "syntax"

\* The resource operations (Create, Read, Exists, Update, Delete) and the wait
\* they run: WaitForState's refresh goroutine and its caller.  Times are in
\* milliseconds since the wait began.
VARIABLES
    op,             \* the operation under way, "none" when only the parser runs
    id,             \* d.Id()
    attribute,      \* d.Get("wait_for_attribute")
    changed,        \* the fields d.HasChange reports
    dstate,         \* d.Get("state")
    mpc,            \* the operation's position (the calling goroutine)
    opReturn,       \* what the operation returned, or that the process exited
    calls,          \* the RPC commands the operation issued itself, in order
                    \* (its waits' 'one.vm.info' calls are counted in probes)
    inflight,       \* number of RPC calls issued and not yet returned
    parses,         \* number of parseResponse invocations
    info,           \* what the last loadVMInfo returned, and what its
                    \* 'one.vm.info' call had returned to it
    conf,           \* the StateChangeConf of the wait under way
    gpc,            \* the refresh goroutine's position
    now,            \* the clock
    wake,           \* when the goroutine's sleep or RPC call ends
    deadline,       \* when the caller's timer (timeout, then grace period) fires
    wait,           \* the goroutine's wait between refreshes
    notfoundTick,   \* refreshes in a row that returned a nil result
    refreshed,      \* the goroutine's last refresh result
    resCh,          \* the result channel's buffer (capacity 1)
    closed,         \* resCh is closed
    cancelled,      \* cancelCh is closed
    lastResult,     \* the caller's last received result
    waitReturn,     \* what WaitForState returned
    probes,         \* the Refresh calls of this wait that have begun, counted:
                    \* n of them, of which so many returned the pending
                    \* label, an error, a result with another label
    probeAt         \* when the last Refresh call of this wait began, -1 if none

\* The user template attributes: the two functions that reconcile and render
\* them, each called on its own.
VARIABLES
    declared,       \* the attributes declared locally (the state), maybe nil
    observed,       \* the flattened VM info, maybe nil
    synchronized,   \* what synchronizeUserTemplateAttributes returned, if called
    built           \* what buildUserTemplateAttributesString returned, if called

wvars == <<conf, gpc, now, wake, deadline, wait, notfoundTick, refreshed, resCh,
           closed, cancelled, lastResult, waitReturn, probes, probeAt>>
cvars == <<op, id, attribute, changed, dstate, mpc, opReturn, calls, inflight,
           parses, info, wvars>>
pvars == <<startElement, data, pos, ntags, exhausted, stk, pc, attributes, path, result, err>>

tvars == <<declared, observed, synchronized, built>>

vars == <<pvars, cvars, tvars>>

\* ------------------------------------------------------------ Go's strings
IsSpace(c) == c \in {" ", "\t", "\n", "\r"}

RECURSIVE TrimLeft(_)
TrimLeft(s) == IF s # <<>> /\ IsSpace(Head(s)) THEN TrimLeft(Tail(s)) ELSE s

RECURSIVE TrimRight(_)
TrimRight(s) ==
    IF s # <<>> /\ IsSpace(s[Len(s)]) THEN TrimRight(SubSeq(s, 1, Len(s) - 1)) ELSE s

\* strings.TrimSpace
TrimSpaceNot(s) == s
TrimSpace(s) == TrimRight(TrimLeft(s))

\* strings.Join(path, sep), on element names
RECURSIVE Join(_, _)
Join(p, sep) ==
    IF p = <<>> THEN ""
    ELSE IF Len(p) = 1 THEN p[1]
    ELSE p[1] \o sep \o Join(Tail(p), sep)

\* ------------------------------------------------------- Go's maps, results
EmptyMap == <<>>
NilResult == [nil |-> TRUE, m |-> EmptyMap]
MapResult(m) == [nil |-> FALSE, m |-> m]

\* attributes[key] = value
MapSet(m, key, value) == (key :> value) @@ m

\* --------------------------------------------------- encoding/xml's Decoder
\* A decoder that does not check end tags against the open element.
TokenErrorLax(s, lex) ==
    CASE lex.k = "cut" -> "syntax"
      [] lex.k = "end" /\ s = <<>> -> "syntax"
      [] OTHER -> "none"

\* Outcome of one Token() call on lexeme lex with open elements s, in strict
\* mode: an end tag must close the innermost open element.
TokenError(s, lex) ==
    CASE lex.k = "cut" -> "syntax"
      [] lex.k = "end" /\ (s = <<>> \/ s[Len(s)] # lex.n) -> "syntax"
      [] OTHER -> "none"

\* The decoder's stack after a successfully returned token.
TokenStack(s, lex) ==
    CASE lex.k = "start" -> Append(s, lex.n)
      [] lex.k = "end" -> SubSeq(s, 1, Len(s) - 1)
      [] OTHER -> s

\* Token() at the end of the input: io.EOF, or a syntax error when an element
\* is still open.
EndOfInputError(s) == IF s = <<>> THEN "EOF" ELSE "syntax"

\* ------------------------------------------------ the wait's configuration
Millisecond == 1
Second == 1000 * Millisecond
Minute == 60 * Second

\* The StateChangeConf fields waitForVmState and waitForAttribute set.
Timeout == 10 * Minute
Delay == 10 * Second
MinTimeout == 3 * Second

\* The fields they leave unset, and WaitForState's own constants: the nil
\* results in a row it accepts, the grace period it gives the goroutine after
\* the timeout, the first wait and the longest wait of its backoff.
NotFoundChecks == 20
RefreshGracePeriod == 30 * Second
FirstWait == 100 * Millisecond
LongestWait == 10 * Second

StateAttribute == "STATE"
LcmStateAttribute == "LCM_STATE"

\* One Refresh result as WaitForState passes it on (its Result struct); the
\* zero value.
NoResult == [res |-> NilResult, state |-> "", err |-> "none", done |-> FALSE]

\* What WaitForState returns: the result, the error and, in a timeout
\* error, the last state received.
NoReturn == [res |-> NilResult, err |-> "none", lastState |-> ""]

\* The operation has not returned; it returned error e (and, from Exists,
\* the boolean b); the process was terminated by log.Fatalf.
NotReturned == [returned |-> FALSE, exists |-> FALSE, err |-> "none", exited |-> FALSE]
Returned(b, e) == [returned |-> TRUE, exists |-> b, err |-> e, exited |-> FALSE]
Exited == [returned |-> FALSE, exists |-> FALSE, err |-> "none", exited |-> TRUE]

NoCall == [resp |-> <<>>, err |-> "none"]
NoInfo == [result |-> NilResult, err |-> "none", call |-> NoCall]
Loaded(out, r) == [result |-> out.result, err |-> out.err, call |-> r]
NoConf == [kind |-> "", target |-> "", pending |-> ""]
NoProbes == [n |-> 0, pending |-> 0, errors |-> 0, reached |-> 0]

\* No wait is under way.
WaitIdle ==
    /\ conf = NoConf
    /\ gpc = "none"
    /\ now = 0
    /\ wake = 0
    /\ deadline = 0
    /\ wait = 0
    /\ notfoundTick = 0
    /\ refreshed = NoResult
    /\ resCh = <<>>
    /\ closed = FALSE
    /\ cancelled = FALSE
    /\ lastResult = NoResult
    /\ waitReturn = NoReturn
    /\ probes = NoProbes
    /\ probeAt = -1

\* No operation is under way: the parser is called on its own.
ControllerIdle ==
    /\ op = "none"
    /\ id = ""
    /\ attribute = ""
    /\ changed = {}
    /\ dstate = 0
    /\ mpc = "idle"
    /\ opReturn = NotReturned
    /\ calls = <<>>
    /\ inflight = 0
    /\ parses = 0
    /\ info = NoInfo
    /\ WaitIdle

\* Neither function of the user template attributes is called.
NotCalled == [called |-> FALSE, value |-> <<>>]
Called(v) == [called |-> TRUE, value |-> v]
TemplateIdle ==
    /\ declared = NilResult
    /\ observed = NilResult
    /\ synchronized = NotCalled
    /\ built = NotCalled

\* -------------------------------------------------------------------- Init
Init ==
    /\ startElement \in RootNames
    /\ data = <<>>
    /\ pos = 0
    /\ ntags = 0
    /\ exhausted = FALSE
    /\ stk = <<>>
    /\ pc = "scan"
    /\ attributes = EmptyMap
    /\ path = <<>>
    /\ result = NilResult
    /\ err = "none"
    /\ ControllerIdle
    /\ TemplateIdle

\* The lexemes the input may continue with: any lexeme, or a tag cut off by
\* the end of the input.
IsTag(lex) == lex.k \in {"start", "end"}

NextLexemes ==
    {lex \in Lexemes : IF IsTag(lex) THEN ntags < MaxTags
                                     ELSE pos - ntags < MaxRuns}
        \cup {CutTag}

\* The decoder's position after consuming lex.
Consume(lex) ==
    /\ data' = Append(data, lex)
    /\ pos' = pos + 1
    /\ ntags' = IF IsTag(lex) THEN ntags + 1 ELSE ntags

ReturnNoError(m, e) ==
    /\ result' = m
    /\ err' = "none"
    /\ pc' = "done"

Return(m, e) ==
    /\ result' = m
    /\ err' = e
    /\ pc' = "done"

\* ----------------------------------------------------------- parseResponse
\* parseSubTree's path stack on entry; open are the elements open around the
\* root, root the root's name.
InitialPathFromOpen(open, root) == open
InitialPathFromRoot(open, root) == <<root>>
InitialPath(open, root) == <<>>

\* The StartElement case of parseResponse's switch: the root is found.
IsRootStartAnyName(lex, root) == lex.k = "start"
IsRootStart(lex, root) == lex.k = "start" /\ lex.n = root

\* What parseResponse and parseSubTree return as the map when Token() gives
\* no token or an error; m is the map built so far.
FailureMapPartial(m) == MapResult(m)
FailureMap(m) == NilResult

\* One iteration of parseResponse's loop, the input being at its end.
parseResponseAtEnd ==
    /\ pc = "scan"
    /\ UNCHANGED <<cvars, tvars>>
    /\ exhausted' = TRUE
    /\ Return(FailureMap(attributes), EndOfInputError(stk))
    /\ UNCHANGED <<startElement, data, pos, ntags, stk, attributes, path>>

\* One iteration of parseResponse's loop on the next lexeme.
parseResponse(lex) ==
    /\ pc = "scan"
    /\ UNCHANGED <<cvars, tvars>>
    /\ pos < MaxScan \/ IsRootStart(lex, startElement)
    /\ Consume(lex)
    /\ UNCHANGED <<startElement, exhausted>>
    /\ IF TokenError(stk, lex) # "none"
       THEN /\ Return(FailureMap(attributes), TokenError(stk, lex))
            /\ UNCHANGED <<stk, attributes, path>>
       ELSE /\ stk' = TokenStack(stk, lex)
            /\ IF IsRootStart(lex, startElement)
               THEN /\ pc' = "sub"
                    /\ attributes' = EmptyMap
                    /\ path' = InitialPath(stk, lex.n)
                    /\ UNCHANGED <<result, err>>
               ELSE UNCHANGED <<pc, attributes, path, result, err>>

\* ------------------------------------------------------------ parseSubTree
\* The map after a CharData token.
CharDataOverwrite(m, p, text) ==
    LET value == TrimSpace(text)
        key == Join(p, PathSeparator)
    IN  IF Len(value) > 0 /\ Len(p) > 0 THEN MapSet(m, key, value) ELSE m

CharDataNoSeparator(m, p, text) ==
    LET value == TrimSpace(text)
        key == Join(p, PathSeparator)
    IN  IF Len(value) > 0 /\ Len(p) > 0
        THEN IF key \in DOMAIN m
             THEN MapSet(m, key, m[key] \o value)
             ELSE MapSet(m, key, value)
        ELSE m

CharDataNoPathCheck(m, p, text) ==
    LET value == TrimSpace(text)
        key == Join(p, PathSeparator)
    IN  IF Len(value) > 0
        THEN IF key \in DOMAIN m
             THEN MapSet(m, key, m[key] \o ValueSepartor \o value)
             ELSE MapSet(m, key, value)
        ELSE m

CharDataNoEmptyCheck(m, p, text) ==
    LET value == TrimSpace(text)
        key == Join(p, PathSeparator)
    IN  IF Len(p) > 0
        THEN IF key \in DOMAIN m
             THEN MapSet(m, key, m[key] \o ValueSepartor \o value)
             ELSE MapSet(m, key, value)
        ELSE m

CharData(m, p, text) ==
    LET value == TrimSpace(text)
        key == Join(p, PathSeparator)
    IN  IF Len(value) > 0 /\ Len(p) > 0
        THEN IF key \in DOMAIN m
             THEN MapSet(m, key, m[key] \o ValueSepartor \o value)
             ELSE MapSet(m, key, value)
        ELSE m

\* The path stack after an EndElement token that does not end the subtree.
EndElementPathKeeps(p, name) == p

EndElementPath(p, name) ==
    IF p[Len(p)] = name THEN SubSeq(p, 1, Len(p) - 1) ELSE p

parseSubTreeAtEnd ==
    /\ pc = "sub"
    /\ UNCHANGED <<cvars, tvars>>
    /\ exhausted' = TRUE
    /\ Return(FailureMap(attributes), EndOfInputError(stk))
    /\ UNCHANGED <<startElement, data, pos, ntags, stk, attributes, path>>

parseSubTree(lex) ==
    /\ pc = "sub"
    /\ UNCHANGED <<cvars, tvars>>
    /\ Consume(lex)
    /\ UNCHANGED <<startElement, exhausted>>
    /\ IF TokenError(stk, lex) # "none"
       THEN /\ Return(FailureMap(attributes), TokenError(stk, lex))
            /\ UNCHANGED <<stk, attributes, path>>
       ELSE /\ stk' = TokenStack(stk, lex)
            /\ CASE lex.k = "start" ->
                      /\ path' = Append(path, lex.n)
                      /\ UNCHANGED <<pc, attributes, result, err>>
                 [] lex.k = "text" ->
                      /\ attributes' = CharData(attributes, path, lex.s)
                      /\ UNCHANGED <<pc, path, result, err>>
                 [] lex.k = "end" ->
                      IF lex.n = startElement
                      THEN /\ Return(MapResult(attributes), "none")
                           /\ UNCHANGED <<attributes, path>>
                      ELSE IF path = <<>>
                      THEN /\ pc' = "panic"
                           /\ UNCHANGED <<attributes, path, result, err>>
                      ELSE /\ path' = EndElementPath(path, lex.n)
                           /\ UNCHANGED <<pc, attributes, result, err>>
                 [] OTHER ->
                      UNCHANGED <<pc, attributes, path, result, err>>

\* ------------------------------------------------- a whole call, as a value
\* The two loops as one step on a token: c.at is "scan" in parseResponse's
\* loop, "sub" in parseSubTree's, "done" after the return and "panic" after
\* the index out of range of path[len(path)-1], which returns nothing; c.s is
\* the decoder's stack, c.m the map and c.p the path.
LoopStart ==
    [at |-> "scan", s |-> <<>>, m |-> EmptyMap, p |-> <<>>,
     result |-> NilResult, err |-> "none"]

LoopReturn(c, m, e) == [c EXCEPT !.at = "done", !.result = m, !.err = e]

LoopStep(c, lex, root) ==
    IF TokenError(c.s, lex) # "none"
    THEN LoopReturn(c, FailureMap(c.m), TokenError(c.s, lex))
    ELSE LET t == [c EXCEPT !.s = TokenStack(c.s, lex)]
         IN  IF c.at = "scan"
             THEN IF IsRootStart(lex, root)
                  THEN [t EXCEPT !.at = "sub", !.m = EmptyMap,
                                 !.p = InitialPath(c.s, lex.n)]
                  ELSE t
             ELSE CASE lex.k = "start" -> [t EXCEPT !.p = Append(c.p, lex.n)]
                    [] lex.k = "text" -> [t EXCEPT !.m = CharData(c.m, c.p, lex.s)]
                    [] lex.k = "end" ->
                         IF lex.n = root THEN LoopReturn(t, MapResult(c.m), "none")
                         ELSE IF c.p = <<>> THEN [t EXCEPT !.at = "panic"]
                         ELSE [t EXCEPT !.p = EndElementPath(c.p, lex.n)]
                    [] OTHER -> t

\* Token() at the end of the input.
LoopEnd(c) == LoopReturn(c, FailureMap(c.m), EndOfInputError(c.s))

\* The loops run over lexemes lo..hi of document d, from c on; the range is
\* taken by halves, which keeps the evaluation shallow on long documents.
RECURSIVE LoopOutcome(_, _, _, _, _)
LoopOutcome(d, lo, hi, c, root) ==
    IF lo > hi THEN c
    ELSE IF lo = hi
    THEN IF c.at \in {"done", "panic"} THEN c ELSE LoopStep(c, d[lo], root)
    ELSE LET mid == (lo + hi) \div 2
             half == LoopOutcome(d, lo, mid, c, root)
         IN  IF half.at \in {"done", "panic"} THEN half
             ELSE LoopOutcome(d, mid + 1, hi, half, root)

\* parseResponse(d, root) as a value: the map and the error it returns,
\* err = "panic" when it returns nothing.
ParseOutcome(d, root) ==
    LET c == LoopOutcome(d, 1, Len(d), LoopStart, root)
        e == IF c.at \in {"done", "panic"} THEN c ELSE LoopEnd(c)
    IN  IF e.at = "panic" THEN [result |-> NilResult, err |-> "panic"]
        ELSE [result |-> e.result, err |-> e.err]

\* ---------------------------------------------------------- the unread rest
\* What may follow, in the input, the point where a successful parse
\* returned: these bytes are part of the document and are never handed to
\* the decoder.
UnreadRests ==
    { <<EndTag("E")>>,
      <<TextRun(<<"b", "\n">>)>>,
      <<TextRun(<<" ", "a">>), EndTag("E")>>,
      <<StartTag(VmElementName), TextRun(<<" ", "a">>), EndTag(VmElementName)>>,
      <<StartTag("E"), TextRun(<<" ", "a">>), CutTag>> }

UnreadInput(rest) ==
    /\ pc = "done"
    /\ UNCHANGED <<cvars, tvars>>
    /\ err = "none"
    /\ Len(data) = pos
    /\ data' = data \o rest
    /\ UNCHANGED <<startElement, pos, ntags, exhausted, stk, pc, attributes, path,
                   result, err>>

Next ==
    \/ parseResponseAtEnd
    \/ \E lex \in NextLexemes : parseResponse(lex)
    \/ parseSubTreeAtEnd
    \/ \E lex \in NextLexemes : parseSubTree(lex)
    \/ \E rest \in UnreadRests : UnreadInput(rest)

Spec == Init /\ [][Next]_vars

\* The value ParseOutcome gives for the input read so far is what the loops
\* above return, step by step.
ParseOutcomeAgrees ==
    /\ pc = "done" =>
          ParseOutcome(SubSeq(data, 1, pos), startElement)
              = [result |-> result, err |-> err]
    /\ pc = "panic" =>
          ParseOutcome(SubSeq(data, 1, pos), startElement).err = "panic"

\* ------------------------------------------------------- the RPC collaborator
\* <name>text</name>; no element at all when the text is Absent.
Absent == <<>>
Element(name, text) == <<StartTag(name), TextRun(text), EndTag(name)>>
Field(name, text) == IF text = Absent THEN <<>> ELSE Element(name, text)

\* A 'one.vm.info' response with the given texts, the other numeric
\* attributes being in place.
VmInfo(uid, state, lcm, owner, ip) ==
    <<StartTag(VmElementName), TextRun(<<"\n">>)>>
        \o Field("UID", uid) \o Element("GID", <<"0">>)
        \o Field(StateAttribute, state) \o Field(LcmStateAttribute, lcm)
        \o <<StartTag("PERMISSIONS")>>
        \o Field("OWNER_U", owner) \o Element("OWNER_M", <<"1">>)
        \o Element("OWNER_A", <<"0">>) \o Element("GROUP_U", <<"1">>)
        \o Element("GROUP_M", <<"0">>) \o Element("GROUP_A", <<"0">>)
        \o Element("OTHER_U", <<"0">>) \o Element("OTHER_M", <<"0">>)
        \o Element("OTHER_A", <<"0">>)
        \o <<EndTag("PERMISSIONS")>>
        \o Field("IP", ip)
        \o <<EndTag(VmElementName)>>

\* A running VM's response whose IP element holds two text runs (as around a
\* comment), with white space before the first and after the second.
VmInfoIpInRuns ==
    LET vm == VmInfo(<<"0">>, <<"3">>, <<"3">>, <<"1">>, Absent)
    IN  SubSeq(vm, 1, Len(vm) - 1)
            \o <<StartTag("IP"), TextRun(<<" ", "1">>), TextRun(<<"0", "\n">>),
                 EndTag("IP"), EndTag(VmElementName)>>

StateTexts == {Absent, <<"1">>, <<"3">>, <<"6">>}
LcmStateTexts == {Absent, <<"0">>, <<"3">>}
IpTexts == {Absent, <<" ">>, <<"0">>, <<"1", "0">>}

\* The documents 'one.vm.info' may answer with: complete ones in every state
\* and with or without the IP, one with the IP in two runs, ones with a
\* numeric attribute missing or not a number, the document of TestLoadVMInfo, one cut off, one without a VM
\* element, the empty one.
Responses ==
    {VmInfo(<<"0">>, st, lcm, <<"1">>, <<"1", "0">>) :
        st \in StateTexts, lcm \in LcmStateTexts}
    \cup {VmInfo(<<"0">>, <<"3">>, <<"3">>, <<"1">>, ip) : ip \in IpTexts}
    \cup {VmInfo(<<"0">>, <<"6">>, <<"0">>, <<"1">>, Absent), VmInfoIpInRuns}
    \cup {VmInfo(uid, <<"3">>, <<"3">>, <<"1">>, <<"1", "0">>) : uid \in {Absent, <<"x">>}}
    \cup {VmInfo(<<"0">>, <<"3">>, <<"3">>, Absent, <<"1", "0">>)}
    \cup { <<StartTag(VmElementName)>> \o Element("SOME_ELEMENT", <<"v">>)
              \o <<EndTag(VmElementName)>>,
           <<StartTag(VmElementName), StartTag(StateAttribute), TextRun(<<"3">>), CutTag>>,
           Element("E", <<"3">>),
           <<>> }

\* What client.Call returns: a response and an error.
CallOk(resp) == [resp |-> resp, err |-> "none"]
CallFailed(resp) == [resp |-> resp, err |-> "error"]

InfoResults ==
    {CallOk(resp) : resp \in Responses}
        \cup {CallFailed(<<>>),
             CallFailed(VmInfo(<<"0">>, <<"3">>, <<"3">>, <<"1">>, <<"1", "0">>))}

\* How long a call may take: no time; so long that the second refresh ends
\* shortly before the timeout; longer than the timeout and the grace period.
SlowCall == 292 * Second
HungCall == 15 * Minute
CallTimes == {0, SlowCall, HungCall}

\* attributes[key], the empty string for a key that is not there
MapGet(m, key) == IF key \in DOMAIN m THEN m[key] ELSE <<>>

\* ------------------------------------------------------------- loadVMInfo
\* loadVMInfo on what its one 'one.vm.info' call returned: the map and error
\* it returns, and whether it invoked parseResponse.
loadVMInfoAlwaysParses(r) ==
    [out |-> ParseOutcome(r.resp, VmElementName), parsed |-> TRUE]

loadVMInfoWrapsError(r) ==
    IF r.err = "none"
    THEN [out |-> ParseOutcome(r.resp, VmElementName), parsed |-> TRUE]
    ELSE [out |-> [result |-> NilResult, err |-> "Could not load VM Info"],
          parsed |-> FALSE]

loadVMInfo(r) ==
    IF r.err = "none"
    THEN [out |-> ParseOutcome(r.resp, VmElementName), parsed |-> TRUE]
    ELSE [out |-> [result |-> NilResult, err |-> r.err], parsed |-> FALSE]

\* loadVMInfo on each result of the call, as a table.
LoadOutcome == [r \in InfoResults |-> loadVMInfo(r)]

\* ------------------------------------------------------ the Refresh closures
RefreshResult(res, state, e) == [res |-> res, state |-> state, err |-> e]

\* waitForVmState's Refresh, out being what loadVMInfo returned.
RefreshVmStateIgnoresLcm(out) ==
    IF out.err = "none"
    THEN LET state == MapGet(out.result.m, StateAttribute)
         IN  IF state = <<"3">>
             THEN RefreshResult(out.result, "running", "none")
             ELSE IF state = <<"6">>
             THEN RefreshResult(out.result, "done", "none")
             ELSE RefreshResult(NilResult, "anythingelse", "none")
    ELSE RefreshResult(NilResult, "", "Could not find VM by ID")

RefreshVmState(out) ==
    IF out.err = "none"
    THEN LET state == MapGet(out.result.m, StateAttribute)
             lcmState == MapGet(out.result.m, LcmStateAttribute)
         IN  IF state = <<"3">> /\ lcmState = <<"3">>
             THEN RefreshResult(out.result, "running", "none")
             ELSE IF state = <<"6">>
             THEN RefreshResult(out.result, "done", "none")
             ELSE RefreshResult(NilResult, "anythingelse", "none")
    ELSE RefreshResult(NilResult, "", "Could not find VM by ID")

\* waitForAttribute's Refresh.
RefreshAttributeByValue(out, attributeName) ==
    IF out.err = "none"
    THEN IF attributeName \in DOMAIN out.result.m /\ out.result.m[attributeName] # <<"0">>
         THEN RefreshResult(out.result, attributeName, "none")
         ELSE RefreshResult(NilResult, "attributeNotFound", "none")
    ELSE RefreshResult(NilResult, "", "Could not find VM by ID")

RefreshAttribute(out, attributeName) ==
    IF out.err = "none"
    THEN IF attributeName \in DOMAIN out.result.m
         THEN RefreshResult(out.result, attributeName, "none")
         ELSE RefreshResult(NilResult, "attributeNotFound", "none")
    ELSE RefreshResult(NilResult, "", "Could not find VM by ID")

\* The Refresh of the wait c, the ID being set.
Refresh(c, out) ==
    IF c.kind = "state" THEN RefreshVmState(out)
    ELSE RefreshAttribute(out, c.target)

\* Either Refresh with an empty ID: no call, the pending label.
RefreshNoId(c) == RefreshResult(NilResult, c.pending, "none")

\* The StateChangeConf of waitForVmState(state) and of waitForAttribute(name).
VmStateConfRunning(state) ==
    [kind |-> "state", target |-> "running", pending |-> "anythingelse"]
VmStateConf(state) == [kind |-> "state", target |-> state, pending |-> "anythingelse"]
AttributeConf(name) == [kind |-> "attribute", target |-> name, pending |-> "attributeNotFound"]

\* ------------------------------------------------------------ WaitForState
\* What the goroutine does with a Refresh result r, nft nil results in a row
\* having been counted: the result it passes on, whether it stops, the count.
AfterRefreshRetriesErrors(c, r, nft) ==
    IF r.res.nil
    THEN [result |-> [r EXCEPT !.err = "none"] @@ [done |-> FALSE],
          stop |-> FALSE, nft |-> 0]
    ELSE IF r.state = c.target
    THEN [result |-> r @@ [done |-> TRUE], stop |-> TRUE, nft |-> 0]
    ELSE [result |-> r @@ [done |-> FALSE], stop |-> FALSE, nft |-> 0]

AfterRefresh(c, r, nft) ==
    IF r.err # "none"
    THEN [result |-> r @@ [done |-> FALSE], stop |-> TRUE, nft |-> nft]
    ELSE IF r.res.nil
    THEN IF nft + 1 > NotFoundChecks
         THEN [result |-> [r EXCEPT !.err = "not found"] @@ [done |-> FALSE],
               stop |-> TRUE, nft |-> nft + 1]
         ELSE [result |-> r @@ [done |-> FALSE], stop |-> FALSE, nft |-> nft + 1]
    ELSE IF r.state = c.target
    THEN [result |-> r @@ [done |-> TRUE], stop |-> TRUE, nft |-> 0]
    ELSE IF r.state = c.pending
    THEN [result |-> r @@ [done |-> FALSE], stop |-> FALSE, nft |-> 0]
    ELSE [result |-> [r EXCEPT !.err = "unexpected state"] @@ [done |-> FALSE],
          stop |-> TRUE, nft |-> 0]

\* The wait before the next refresh, after a wait of w: doubled, at least
\* MinTimeout, at most ten seconds.
NextWaitNoMinimum(w) ==
    IF w * 2 > LongestWait THEN LongestWait ELSE w * 2

NextWait(w) ==
    IF w * 2 < MinTimeout THEN MinTimeout
    ELSE IF w * 2 > LongestWait THEN LongestWait
    ELSE w * 2

\* When the first refresh is due, the wait having begun at start.
FirstRefreshAtOnce(start) == start
FirstRefreshAt(start) == start + Delay

\* stateConf.WaitForState() begins: the goroutine is started and the timeout
\* timer set.
StartWait(c) ==
    /\ conf' = c
    /\ gpc' = "delay"
    /\ now' = 0
    /\ wake' = FirstRefreshAt(0)
    /\ deadline' = Timeout
    /\ wait' = 0
    /\ notfoundTick' = 0
    /\ refreshed' = NoResult
    /\ resCh' = <<>>
    /\ closed' = FALSE
    /\ cancelled' = FALSE
    /\ lastResult' = NoResult
    /\ waitReturn' = NoReturn
    /\ probes' = NoProbes
    /\ probeAt' = -1
    /\ mpc' = "wait"

\* A channel operation can go ahead at once.
CanSend == gpc \in {"send", "final"} /\ resCh = <<>>
CanReceive == mpc \in {"wait", "grace"} /\ (resCh # <<>> \/ closed)
CanCancel == gpc = "select" /\ cancelled /\ now < wake

GoroutineTimed == gpc \in {"delay", "select", "call"}
CallerTimed == mpc \in {"wait", "grace"}

\* The goroutine's timer or call is the next thing to happen.
GoroutineDue ==
    /\ GoroutineTimed
    /\ ~CanSend /\ ~CanCancel
    /\ CanReceive => now = wake
    /\ CallerTimed => wake <= deadline

\* The caller's timer is the next thing to happen.
CallerDue ==
    /\ CallerTimed
    /\ ~CanSend /\ ~CanCancel
    /\ CanReceive => now = deadline
    /\ GoroutineTimed => deadline <= wake

\* The goroutine takes the Refresh result r: w is the wait it just slept, pr
\* the count of the refreshes begun.
TakeRefresh(r, w, pr) ==
    LET a == AfterRefresh(conf, r, notfoundTick)
    IN  /\ refreshed' = a.result
        /\ notfoundTick' = a.nft
        /\ probes' =
              [pr EXCEPT
                 !.pending = IF r.err = "none" /\ r.res.nil THEN @ + 1 ELSE @,
                 !.errors = IF r.err # "none" THEN @ + 1 ELSE @,
                 !.reached = IF r.err = "none" /\ ~r.res.nil THEN @ + 1 ELSE @]
        /\ IF a.stop
           THEN gpc' = "final" /\ wait' = w
           ELSE gpc' = "send" /\ wait' = NextWait(w)

\* time.Sleep(conf.Delay) is over.
GoroutineDelay ==
    /\ gpc = "delay"
    /\ GoroutineDue
    /\ now' = wake
    /\ gpc' = "send"
    /\ UNCHANGED <<pvars, tvars, op, id, attribute, changed, dstate, mpc, opReturn, calls,
                   inflight, parses, info, conf, wake, deadline, wait, notfoundTick,
                   refreshed, resCh, closed, cancelled, lastResult, waitReturn,
                   probes, probeAt>>

\* resCh <- result at the top of the loop, then the select begins.
GoroutineSend ==
    /\ gpc = "send"
    /\ resCh = <<>>
    /\ resCh' = <<refreshed>>
    /\ gpc' = "select"
    /\ wake' = now + wait
    /\ UNCHANGED <<pvars, tvars, op, id, attribute, changed, dstate, mpc, opReturn, calls,
                   inflight, parses, info, conf, now, deadline, wait, notfoundTick,
                   refreshed, closed, cancelled, lastResult, waitReturn, probes,
                   probeAt>>

\* case <-cancelCh: return (and the deferred close of resCh).
GoroutineCancelled ==
    /\ gpc = "select"
    /\ cancelled
    /\ gpc' = "exit"
    /\ closed' = TRUE
    /\ UNCHANGED <<pvars, tvars, op, id, attribute, changed, dstate, mpc, opReturn, calls,
                   inflight, parses, info, conf, now, wake, deadline, wait,
                   notfoundTick, refreshed, resCh, cancelled, lastResult,
                   waitReturn, probes, probeAt>>

\* case <-time.After(wait), then conf.Refresh() begins: with an ID it issues
\* loadVMInfo's call, which takes time t; without one it returns at once.
GoroutineRefresh(t) ==
    /\ gpc = "select"
    /\ GoroutineDue
    /\ now' = wake
    /\ probeAt' = wake
    /\ LET w == IF wait = 0 THEN FirstWait ELSE wait
       IN  IF id # ""
           THEN /\ inflight' = inflight + 1
                /\ gpc' = "call"
                /\ wake' = wake + t
                /\ wait' = w
                /\ probes' = [probes EXCEPT !.n = @ + 1]
                /\ UNCHANGED <<notfoundTick, refreshed>>
           ELSE /\ t = 0
                /\ TakeRefresh(RefreshNoId(conf), w, [probes EXCEPT !.n = @ + 1])
                /\ UNCHANGED <<inflight, wake>>
    /\ UNCHANGED <<pvars, tvars, op, id, attribute, changed, dstate, mpc, opReturn, calls,
                   parses, info, conf, deadline, resCh, closed, cancelled,
                   lastResult, waitReturn>>

\* The call returns r and Refresh ends.
GoroutineReturn(r) ==
    /\ gpc = "call"
    /\ GoroutineDue
    /\ now' = wake
    /\ inflight' = inflight - 1
    /\ LET l == LoadOutcome[r]
       IN  /\ info' = Loaded(l.out, r)
           /\ parses' = IF l.parsed THEN parses + 1 ELSE parses
           /\ TakeRefresh(Refresh(conf, l.out), wait, probes)
    /\ UNCHANGED <<pvars, tvars, op, id, attribute, changed, dstate, mpc, opReturn, calls,
                   conf, wake, deadline, resCh, closed, cancelled, lastResult,
                   waitReturn, probeAt>>

\* The last resCh <- result, the return and the deferred close.
GoroutineFinal ==
    /\ gpc = "final"
    /\ resCh = <<>>
    /\ resCh' = <<refreshed>>
    /\ closed' = TRUE
    /\ gpc' = "exit"
    /\ UNCHANGED <<pvars, tvars, op, id, attribute, changed, dstate, mpc, opReturn, calls,
                   inflight, parses, info, conf, now, wake, deadline, wait,
                   notfoundTick, refreshed, cancelled, lastResult, waitReturn,
                   probes, probeAt>>

\* The caller's select loop takes a result from resCh.
WaitReturns(v) ==
    /\ waitReturn' = v
    /\ mpc' = "waited"

TimeoutError == [res |-> NilResult, err |-> "timeout", lastState |-> lastResult.state]

WaitReceive ==
    /\ mpc \in {"wait", "grace"}
    /\ resCh # <<>>
    /\ resCh' = <<>>
    /\ LET r == resCh[1]
       IN  IF r.done
           THEN /\ WaitReturns([res |-> r.res, err |-> r.err, lastState |-> ""])
                /\ UNCHANGED lastResult
           ELSE /\ lastResult' = r
                /\ UNCHANGED <<mpc, waitReturn>>
    /\ UNCHANGED <<pvars, tvars, op, id, attribute, changed, dstate, opReturn, calls,
                   inflight, parses, info, conf, gpc, now, wake, deadline, wait,
                   notfoundTick, refreshed, closed, cancelled, probes, probeAt>>

\* resCh is closed and empty: the last result is returned, or, in the grace
\* period, the timeout error.
WaitClosed ==
    /\ mpc \in {"wait", "grace"}
    /\ resCh = <<>>
    /\ closed
    /\ IF mpc = "wait"
       THEN WaitReturns([res |-> lastResult.res, err |-> lastResult.err, lastState |-> ""])
       ELSE WaitReturns(TimeoutError)
    /\ UNCHANGED <<pvars, tvars, op, id, attribute, changed, dstate, opReturn, calls,
                   inflight, parses, info, conf, gpc, now, wake, deadline, wait,
                   notfoundTick, refreshed, resCh, closed, cancelled, lastResult,
                   probes, probeAt>>

\* case <-timeout: the goroutine is cancelled and the grace period begins.
WaitTimeout ==
    /\ mpc = "wait"
    /\ CallerDue
    /\ now' = deadline
    /\ cancelled' = TRUE
    /\ deadline' = deadline + RefreshGracePeriod
    /\ mpc' = "grace"
    /\ UNCHANGED <<pvars, tvars, op, id, attribute, changed, dstate, opReturn, calls,
                   inflight, parses, info, conf, gpc, wake, wait, notfoundTick,
                   refreshed, resCh, closed, lastResult, waitReturn, probes,
                   probeAt>>

\* The grace period is over.
WaitGraceOver ==
    /\ mpc = "grace"
    /\ CallerDue
    /\ now' = deadline
    /\ WaitReturns(TimeoutError)
    /\ UNCHANGED <<pvars, tvars, op, id, attribute, changed, dstate, opReturn, calls,
                   inflight, parses, info, conf, gpc, wake, deadline, wait,
                   notfoundTick, refreshed, resCh, closed, cancelled, lastResult,
                   probes, probeAt>>

\* ------------------------------------------------------------- strconv.Atoi
Digits == <<"0", "1", "2", "3", "4", "5", "6", "7", "8", "9">>
IsDigit(c) == \E i \in 1..Len(Digits) : Digits[i] = c
DigitValue(c) == (CHOOSE i \in 1..Len(Digits) : Digits[i] = c) - 1

\* The digits of v, after an optional sign.
Unsigned(v) == IF v # <<>> /\ v[1] \in {"+", "-"} THEN Tail(v) ELSE v

\* strconv.Atoi(v) returns no error.
AtoiOk(v) ==
    /\ Unsigned(v) # <<>>
    /\ \A i \in 1..Len(Unsigned(v)) : IsDigit(Unsigned(v)[i])

RECURSIVE DigitsValue(_)
DigitsValue(v) ==
    IF v = <<>> THEN 0 ELSE 10 * DigitsValue(SubSeq(v, 1, Len(v) - 1)) + DigitValue(v[Len(v)])

Atoi(v) == IF v # <<>> /\ v[1] = "-" THEN 0 - DigitsValue(Unsigned(v)) ELSE DigitsValue(Unsigned(v))

\* ------------------------------------------------------ saveVmInfoToState
\* The attributes saveVmInfoToState and buildPermissions hand to convertToInt.
NumericAttributes ==
    {"UID", "GID", StateAttribute, LcmStateAttribute,
     "PERMISSIONS/OWNER_U", "PERMISSIONS/OWNER_M", "PERMISSIONS/OWNER_A",
     "PERMISSIONS/GROUP_U", "PERMISSIONS/GROUP_M", "PERMISSIONS/GROUP_A",
     "PERMISSIONS/OTHER_U", "PERMISSIONS/OTHER_M", "PERMISSIONS/OTHER_A"}

\* convertToInt(value) returns: otherwise log.Fatalf ends the process.
convertToIntReturns(value) == AtoiOk(value)

\* saveVmInfoToState(d, m) returns.
saveVmInfoToStateReturns(m) ==
    \A k \in NumericAttributes : convertToIntReturns(MapGet(m, k))

\* ----------------------------------------------------------- the operations
\* What the other commands may answer with.
InstantiateResults ==
    { [resp |-> "1", err |-> "none"], [resp |-> "", err |-> "error"],
      [resp |-> "1", err |-> "error"] }
CommandResults == { [resp |-> "1", err |-> "none"], [resp |-> "", err |-> "error"] }

\* client.Call(cmd, ...) is issued; the operation goes on at next when it
\* returns.  fl calls were in flight.
IssueCall(cmd, next, fl) ==
    /\ calls' = Append(calls, cmd)
    /\ inflight' = fl + 1
    /\ mpc' = next

\* The operation returns.
OpReturns(b, e) ==
    /\ opReturn' = Returned(b, e)
    /\ mpc' = "done"

\* The caller leaves WaitForState behind: once the goroutine has ended as
\* well, nothing of the wait remains.
WaitEnds ==
    IF gpc = "exit"
    THEN /\ conf' = NoConf
         /\ gpc' = "none"
         /\ now' = 0
         /\ wake' = 0
         /\ deadline' = 0
         /\ wait' = 0
         /\ notfoundTick' = 0
         /\ refreshed' = NoResult
         /\ resCh' = <<>>
         /\ closed' = FALSE
         /\ cancelled' = FALSE
         /\ lastResult' = NoResult
         /\ waitReturn' = NoReturn
         /\ probes' = NoProbes
         /\ probeAt' = -1
    ELSE UNCHANGED wvars

\* if err != nil after a WaitForState that returned v
WaitFailedNever(v) == FALSE
WaitFailed(v) == v.err # "none"

\* resourceVmCreate up to the 'one.template.instantiate' call.
CreateBegin ==
    /\ op = "Create"
    /\ mpc = "start"
    /\ IssueCall("one.template.instantiate", "instantiate", inflight)
    /\ UNCHANGED <<pvars, tvars, op, id, attribute, changed, dstate, opReturn, parses,
                   info, wvars>>

\* d.Id() after the instantiate call returned r.
IdAfterInstantiateSetFirst(r) == r.resp
IdAfterInstantiate(r) == IF r.err # "none" THEN id ELSE r.resp

\* The instantiate call returns r: d.SetId(resp) and waitForVmState begins.
CreateInstantiated(r) ==
    /\ mpc = "instantiate"
    /\ inflight' = inflight - 1
    /\ id' = IdAfterInstantiate(r)
    /\ IF r.err # "none"
       THEN /\ OpReturns(FALSE, r.err)
            /\ UNCHANGED wvars
       ELSE /\ StartWait(VmStateConf("running"))
            /\ UNCHANGED opReturn
    /\ UNCHANGED <<pvars, tvars, op, attribute, changed, dstate, calls, parses, info>>

\* if attribute != ""
WaitsForAttributeNever == FALSE
WaitsForAttribute == attribute # ""

\* resourceVmCreate after a wait returned: the next wait, or the chmod call.
CreateWaited ==
    /\ op = "Create"
    /\ mpc = "waited"
    /\ IF WaitFailed(waitReturn)
       THEN /\ OpReturns(FALSE, "Error waiting")
            /\ WaitEnds
            /\ UNCHANGED <<calls, inflight>>
       ELSE IF conf.kind = "state" /\ WaitsForAttribute
       THEN /\ StartWait(AttributeConf(attribute))
            /\ UNCHANGED <<calls, inflight, opReturn>>
       ELSE /\ IssueCall("one.vm.chmod", "chmod", inflight)
            /\ WaitEnds
            /\ UNCHANGED opReturn
    /\ UNCHANGED <<pvars, tvars, op, id, attribute, changed, dstate, parses, info>>

\* resourceVmExists' condition, resourceVmRead having returned e and the state
\* saved being st: whether it returns true.
resourceVmExistsIgnoresState(e, st) == ~(e # "none" \/ id = "")
resourceVmExists(e, st) == ~(e # "none" \/ id = "" \/ st = 6)

\* resourceVmRead returns e, the state saved being st and fl calls in flight:
\* Read and Create return it, Exists and Delete go on.
ReadEnds(e, st, fl) ==
    CASE op = "Exists" ->
           /\ IF resourceVmExists(e, st)
              THEN OpReturns(TRUE, "none")
              ELSE OpReturns(FALSE, e)
           /\ inflight' = fl
           /\ UNCHANGED calls
      [] op = "Delete" ->
           IF e # "none" \/ id = ""
           THEN /\ OpReturns(FALSE, e)
                /\ inflight' = fl
                /\ UNCHANGED calls
           ELSE /\ IssueCall("one.vm.action", "terminate", fl)
                /\ UNCHANGED opReturn
      [] OTHER ->
           /\ OpReturns(FALSE, e)
           /\ inflight' = fl
           /\ UNCHANGED calls

\* resourceVmRead up to loadVMInfo's call, or its return without an ID.
ReadBegin ==
    /\ mpc = "read" \/ (mpc = "start" /\ op \in {"Read", "Exists", "Delete"})
    /\ IF id # ""
       THEN /\ IssueCall("one.vm.info", "info", inflight)
            /\ UNCHANGED opReturn
       ELSE ReadEnds("VM ID not set", dstate, inflight)
    /\ UNCHANGED <<pvars, tvars, op, id, attribute, changed, dstate, parses, info, wvars>>

\* loadVMInfo's call returns r; saveVmInfoToState, where convertToInt ends the
\* process on a text that is no integer.
ReadReturned(r) ==
    /\ mpc = "info"
    /\ LET l == LoadOutcome[r]
       IN  /\ info' = Loaded(l.out, r)
           /\ parses' = IF l.parsed THEN parses + 1 ELSE parses
           /\ IF l.out.err # "none"
              THEN /\ ReadEnds(l.out.err, dstate, inflight - 1)
                   /\ UNCHANGED dstate
              ELSE IF saveVmInfoToStateReturns(l.out.result.m)
              THEN /\ dstate' = Atoi(MapGet(l.out.result.m, StateAttribute))
                   /\ ReadEnds("none", dstate', inflight - 1)
              ELSE /\ opReturn' = Exited
                   /\ mpc' = "dead"
                   /\ inflight' = inflight - 1
                   /\ UNCHANGED <<dstate, calls>>
    /\ UNCHANGED <<pvars, tvars, op, id, attribute, changed, wvars>>

\* d.HasChange(field)
HasChangeAlways(field) == TRUE
HasChange(field) == field \in changed

\* The 'one.vm.chmod' call returns r: Create goes on to resourceVmRead, Update
\* to the user template.
ChmodReturned(r) ==
    /\ mpc = "chmod"
    /\ IF r.err # "none"
       THEN /\ OpReturns(FALSE, r.err)
            /\ inflight' = inflight - 1
            /\ UNCHANGED calls
       ELSE IF op = "Create"
       THEN /\ mpc' = "read"
            /\ inflight' = inflight - 1
            /\ UNCHANGED <<calls, opReturn>>
       ELSE IF HasChange("user_template_attributes")
       THEN /\ IssueCall("one.vm.update", "update", inflight - 1)
            /\ UNCHANGED opReturn
       ELSE /\ OpReturns(FALSE, "none")
            /\ inflight' = inflight - 1
            /\ UNCHANGED calls
    /\ UNCHANGED <<pvars, tvars, op, id, attribute, changed, dstate, parses, info, wvars>>

\* resourceVmUpdate up to its first call.
UpdateBegin ==
    /\ op = "Update"
    /\ mpc = "start"
    /\ IF HasChange("permissions")
       THEN /\ IssueCall("one.vm.chmod", "chmod", inflight)
            /\ UNCHANGED opReturn
       ELSE IF HasChange("user_template_attributes")
       THEN /\ IssueCall("one.vm.update", "update", inflight)
            /\ UNCHANGED opReturn
       ELSE /\ OpReturns(FALSE, "none")
            /\ UNCHANGED <<calls, inflight>>
    /\ UNCHANGED <<pvars, tvars, op, id, attribute, changed, dstate, parses, info, wvars>>

\* updateUserTemplate's call returns r.
UpdateReturned(r) ==
    /\ mpc = "update"
    /\ OpReturns(FALSE, r.err)
    /\ inflight' = inflight - 1
    /\ UNCHANGED <<pvars, tvars, op, id, attribute, changed, dstate, calls, parses, info,
                   wvars>>

\* The 'one.vm.action' terminate-hard call returns r: waitForVmState("done").
DeleteTerminated(r) ==
    /\ mpc = "terminate"
    /\ inflight' = inflight - 1
    /\ IF r.err # "none"
       THEN /\ OpReturns(FALSE, r.err)
            /\ UNCHANGED wvars
       ELSE /\ StartWait(VmStateConf("done"))
            /\ UNCHANGED opReturn
    /\ UNCHANGED <<pvars, tvars, op, id, attribute, changed, dstate, calls, parses, info>>

\* resourceVmDelete after its wait returned.
DeleteWaited ==
    /\ op = "Delete"
    /\ mpc = "waited"
    /\ IF WaitFailed(waitReturn)
       THEN OpReturns(FALSE, "Error waiting")
       ELSE OpReturns(FALSE, "none")
    /\ WaitEnds
    /\ UNCHANGED <<pvars, tvars, op, id, attribute, changed, dstate, calls, inflight,
                   parses, info>>

\* ------------------------------------------------ the operations' behaviours
Operations == {"Create", "Read", "Exists", "Update", "Delete"}
Ids == {"", "1"}
AttributeNames == {"", "IP"}
Fields == {"permissions", "user_template_attributes"}

\* An operation is called; the parser runs only inside loadVMInfo.
OpInit ==
    /\ op \in Operations
    /\ id \in IF op = "Create" THEN {""} ELSE IF op = "Update" THEN {"1"} ELSE Ids
    /\ attribute \in IF op = "Create" THEN AttributeNames ELSE {""}
    /\ changed \in IF op = "Update" THEN SUBSET Fields ELSE {{}}
    /\ dstate = 0
    /\ mpc = "start"
    /\ opReturn = NotReturned
    /\ calls = <<>>
    /\ inflight = 0
    /\ parses = 0
    /\ info = NoInfo
    /\ WaitIdle
    /\ startElement = VmElementName
    /\ data = <<>>
    /\ pos = 0
    /\ ntags = 0
    /\ exhausted = FALSE
    /\ stk = <<>>
    /\ pc = "off"
    /\ attributes = EmptyMap
    /\ path = <<>>
    /\ result = NilResult
    /\ err = "none"
    /\ TemplateIdle

OpNext ==
    \/ CreateBegin
    \/ \E r \in InstantiateResults : CreateInstantiated(r)
    \/ CreateWaited
    \/ ReadBegin
    \/ \E r \in InfoResults : ReadReturned(r)
    \/ \E r \in CommandResults : ChmodReturned(r)
    \/ UpdateBegin
    \/ \E r \in CommandResults : UpdateReturned(r)
    \/ \E r \in CommandResults : DeleteTerminated(r)
    \/ DeleteWaited
    \/ GoroutineDelay
    \/ GoroutineSend
    \/ GoroutineCancelled
    \/ \E t \in CallTimes : GoroutineRefresh(t)
    \/ \E r \in InfoResults : GoroutineReturn(r)
    \/ GoroutineFinal
    \/ WaitReceive
    \/ WaitClosed
    \/ WaitTimeout
    \/ WaitGraceOver

OpSpec == OpInit /\ [][OpNext]_vars

\* ----------------------------------------------- the user template attributes
\* The prefix of the user template's attributes in the flattened VM info.
UserTemplatePrefix == "USER_TEMPLATE"

\* The keys a configuration may declare and the keys the VM info may hold.
DeclaredKeys == {"attr1", "ATTR1", "attr2"}
ObservedKeys ==
    {"USER_TEMPLATE/ATTR0", "USER_TEMPLATE/ATTR1", "USER_TEMPLATE/attr1",
     "USER_TEMPLATE/ATTR2"}
DeclaredValues == {<<"v">>, <<"w", "=">>}
ObservedValues == {<<"x">>, <<"y">>}

\* Every map with keys among K and values among V, and the nil map.
Maps(K, V) ==
    {NilResult} \cup UNION {{MapResult(m) : m \in [S -> V]} : S \in SUBSET K}

\* strings.ToUpper, on the keys above
ToUpper(key) ==
    CASE key = "attr1" -> "ATTR1"
      [] key = "attr2" -> "ATTR2"
      [] OTHER -> key

\* synchronizeUserTemplateAttributes(state, vmInfo): for every declared key
\* what the VM info holds for it, the empty string if nothing.
synchronizeUserTemplateAttributesAsDeclared(state, vmInfo) ==
    MapResult([key \in DOMAIN state.m |->
                  MapGet(vmInfo.m, UserTemplatePrefix \o PathSeparator \o key)])

synchronizeUserTemplateAttributes(state, vmInfo) ==
    MapResult([key \in DOMAIN state.m |->
                  MapGet(vmInfo.m, UserTemplatePrefix \o PathSeparator \o ToUpper(key))])

\* The orders in which a range over a map with the keys S may visit them.
Orders(S) ==
    {o \in [1..Cardinality(S) -> S] :
        \A i, j \in 1..Cardinality(S) : i # j => o[i] # o[j]}

\* One line of the rendering.
Line(key, value) == <<key, "=">> \o value

\* strings.Join(lines, "\n")
RECURSIVE JoinLines(_)
JoinLines(lines) ==
    IF lines = <<>> THEN <<>>
    ELSE IF Len(lines) = 1 THEN lines[1]
    ELSE lines[1] \o <<"\n">> \o JoinLines(Tail(lines))

RECURSIVE EndLines(_)
EndLines(lines) ==
    IF lines = <<>> THEN <<>> ELSE lines[1] \o <<"\n">> \o EndLines(Tail(lines))

\* buildUserTemplateAttributesString(m), the range over m visiting its keys
\* in the given order.
buildUserTemplateAttributesStringEndingLines(m, order) ==
    EndLines([i \in 1..Len(order) |-> Line(order[i], m.m[order[i]])])

buildUserTemplateAttributesString(m, order) ==
    JoinLines([i \in 1..Len(order) |-> Line(order[i], m.m[order[i]])])

\* synchronizeUserTemplateAttributes is called.
SynchronizeCalled ==
    /\ ~synchronized.called
    /\ synchronized' = Called(synchronizeUserTemplateAttributes(declared, observed))
    /\ UNCHANGED <<pvars, cvars, declared, observed, built>>

\* buildUserTemplateAttributesString is called.
BuildCalled(order) ==
    /\ ~built.called
    /\ built' = Called(buildUserTemplateAttributesString(declared, order))
    /\ UNCHANGED <<pvars, cvars, declared, observed, synchronized>>

\* The two functions are called on any declared and observed attributes.
TemplateInit ==
    /\ declared \in Maps(DeclaredKeys, DeclaredValues)
    /\ observed \in Maps(ObservedKeys, ObservedValues)
    /\ synchronized = NotCalled
    /\ built = NotCalled
    /\ ControllerIdle
    /\ startElement = VmElementName
    /\ data = <<>>
    /\ pos = 0
    /\ ntags = 0
    /\ exhausted = FALSE
    /\ stk = <<>>
    /\ pc = "off"
    /\ attributes = EmptyMap
    /\ path = <<>>
    /\ result = NilResult
    /\ err = "none"

TemplateNext ==
    \/ SynchronizeCalled
    \/ \E order \in Orders(DOMAIN declared.m) : BuildCalled(order)

TemplateSpec == TemplateInit /\ [][TemplateNext]_vars

\* ------------------------------------------------------ document structure
\* The structure of a document, read off its lexemes alone: used to state
\* what the parser's result must be.

Last(q) == q[Len(q)]
SeqRange(q) == {q[i] : i \in 1..Len(q)}

RECURSIVE MinOf(_)
MinOf(S) ==
    LET x == CHOOSE y \in S : TRUE
    IN  IF S = {x} THEN x
        ELSE LET m == MinOf(S \ {x}) IN IF x < m THEN x ELSE m

\* The start tags a lexeme leaves open, given those open before it.
OpenAfter(open, lex, i) ==
    CASE lex.k = "start" -> Append(open, i)
      [] lex.k = "end" -> IF open = <<>> THEN open ELSE SubSeq(open, 1, Len(open) - 1)
      [] OTHER -> open

\* Opens(d)[i]: the indices of the start tags open around lexeme i of d (those
\* still open after its first i - 1 lexemes), outermost first;
\* Opens(d)[Len(d) + 1]: those left open at the end.
RECURSIVE OpensFrom(_, _)
OpensFrom(d, acc) ==
    IF Len(acc) > Len(d) THEN acc
    ELSE OpensFrom(d, Append(acc, OpenAfter(Last(acc), d[Len(acc)], Len(acc))))

Opens(d) == OpensFrom(d, << <<>> >>)

\* Every end tag closes the innermost open element, nothing is cut off and
\* nothing is left open.
WellFormed(d) ==
    LET o == Opens(d)
    IN  /\ o[Len(d) + 1] = <<>>
        /\ \A i \in 1..Len(d) :
              /\ d[i].k # "cut"
              /\ d[i].k = "end" => o[i] # <<>> /\ d[Last(o[i])].n = d[i].n

IsRootTag(d, root, i) == d[i].k = "start" /\ d[i].n = root
RootStarts(d, root) == {i \in 1..Len(d) : IsRootTag(d, root, i)}
HasRoot(d, root) == \E i \in 1..Len(d) : IsRootTag(d, root, i)

\* The first start tag named root, from lexeme i on; 0 when there is none.
RECURSIVE FirstRootFrom(_, _, _)
FirstRootFrom(d, root, i) ==
    IF i > Len(d) THEN 0
    ELSE IF IsRootTag(d, root, i) THEN i
    ELSE FirstRootFrom(d, root, i + 1)

FirstRoot(d, root) == FirstRootFrom(d, root, 1)

\* The names of the elements open around lexeme i, from below r down; o is
\* Opens(d).
PathBelow(d, o, r, i) ==
    LET below == SelectSeq(o[i], LAMBDA e : e > r)
    IN  [j \in 1..Len(below) |-> d[below[j]].n]

IsBlank(text) == \A j \in 1..Len(text) : IsSpace(text[j])

\* A text without its leading and trailing white space.
Strip(text) ==
    LET solid == {j \in 1..Len(text) : ~IsSpace(text[j])}
        first == CHOOSE j \in solid : \A x \in solid : j <= x
        last == CHOOSE j \in solid : \A x \in solid : j >= x
    IN  IF solid = {} THEN <<>> ELSE SubSeq(text, first, last)

\* The text runs at the indices T, stripped, in document order, one space
\* between two of them.
RECURSIVE JoinRuns(_, _)
JoinRuns(d, T) ==
    IF T = {} THEN <<>>
    ELSE LET t == MinOf(T)
         IN  IF T = {t} THEN Strip(d[t].s)
             ELSE Strip(d[t].s) \o <<" ">> \o JoinRuns(d, T \ {t})

\* The non-blank text runs among the lexemes r+1..h that lie inside the
\* element opened at r, below a descendant of it, each with its key: the
\* path from below r down to the element that holds the run.
KeyedRuns(d, r, h) ==
    LET o == Opens(d)
        runs == {t \in (r + 1)..h :
                    /\ d[t].k = "text"
                    /\ ~IsBlank(d[t].s)
                    /\ r \in SeqRange(o[t])
                    /\ Last(o[t]) # r}
    IN  [t \in runs |-> Join(PathBelow(d, o, r, t), "/")]

\* The map that the text runs among lexemes r+1..h of d make: each key the
\* path of a run, its value the runs of this path in document order.
FlatMap(d, r, h) ==
    LET keyed == KeyedRuns(d, r, h)
    IN  [key \in {keyed[t] : t \in DOMAIN keyed} |->
            JoinRuns(d, {t \in DOMAIN keyed : keyed[t] = key})]

\* The descendant elements of the element opened at r.
Descendants(d, o, r) ==
    {e \in (r + 1)..Len(d) : d[e].k = "start" /\ r \in SeqRange(o[e])}

\* The path of element e, from below r down to e itself.
ElementKey(d, o, r, e) == Join(Append(PathBelow(d, o, r, e), d[e].n), "/")

\* The non-blank text runs that are direct children of element e.
DirectRuns(d, o, e) ==
    {t \in (e + 1)..Len(d) :
        d[t].k = "text" /\ ~IsBlank(d[t].s) /\ o[t] # <<>> /\ Last(o[t]) = e}

\* The descendants of r that hold text of their own.
TextElements(d, o, r) ==
    {Last(o[t]) : t \in {x \in (r + 1)..Len(d) :
                            /\ d[x].k = "text"
                            /\ ~IsBlank(d[x].s)
                            /\ r \in SeqRange(o[x])
                            /\ Last(o[x]) # r}}

root0 == FirstRoot(data, startElement)
Succeeded == pc = "done" /\ err = "none"
Failed == pc = "done" /\ err # "none"

\* ------------------------------------------------------------------ claims

\* A complete well-formed document holding the root exactly once was parsed.
WellFormedOnce ==
    /\ pc = "done"
    /\ Cardinality(RootStarts(data, startElement)) = 1
    /\ WellFormed(data)

\* C1 as stated: for every well-formed document that contains the root
\* exactly once the parse succeeds, the keys are the paths of the descendant
\* elements with a non-blank direct text run, and the value of each such
\* element's key is that element's own direct runs, stripped and joined by
\* single spaces.
C1_ValuePerElement ==
    WellFormedOnce =>
        LET o == Opens(data)
            r == root0
            elems == TextElements(data, o, r)
        IN  /\ err = "none"
            /\ ~result.nil
            /\ DOMAIN result.m = {ElementKey(data, o, r, e) : e \in elems}
            /\ \A e \in elems :
                  result.m[ElementKey(data, o, r, e)] =
                      JoinRuns(data, DirectRuns(data, o, e))

\* C1 amended: ... and the value of each key is the direct runs of all the
\* elements that have this path, stripped and joined by single spaces in
\* document order.
C1_ValuePerPath ==
    WellFormedOnce =>
        LET o == Opens(data)
            r == root0
            elems == TextElements(data, o, r)
        IN  /\ err = "none"
            /\ ~result.nil
            /\ DOMAIN result.m = {ElementKey(data, o, r, e) : e \in elems}
            /\ \A key \in DOMAIN result.m :
                  result.m[key] =
                      JoinRuns(data, UNION {DirectRuns(data, o, e) :
                          e \in {x \in elems : ElementKey(data, o, r, x) = key}})

\* Two sibling elements of the same name both hold text.
C1_Witness ==
    /\ WellFormedOnce
    /\ LET o == Opens(data)
           r == root0
       IN  \E e1, e2 \in TextElements(data, o, r) :
              e1 # e2 /\ ElementKey(data, o, r, e1) = ElementKey(data, o, r, e2)

\* C2: on every failing return the returned map is nil and holds no key,
\* whatever had been accumulated.
C2_FailureReturnsNoMap ==
    Failed => result.nil /\ DOMAIN result.m = {}

\* A failing return after keys had been accumulated.
C2_Witness == Failed /\ DOMAIN attributes # {}

\* C3: when no start tag named as the root occurs in the document (the empty
\* root name included), the parse fails with an error and a nil map.
C3_NoRootFails ==
    (pc \in {"done", "panic"} /\ ~HasRoot(data, startElement)) =>
        pc = "done" /\ err # "none" /\ result = NilResult

\* A well-formed document of another element and text, without the root.
C3_Witness ==
    /\ pc = "done"
    /\ startElement # ""
    /\ ~HasRoot(data, startElement)
    /\ WellFormed(data)
    /\ \E i \in 1..Len(data) : data[i].k = "start"
    /\ \E i \in 1..Len(data) : data[i].k = "text"

\* C4: a successful parse ends at the closing tag that matches the root's
\* start tag, not at the closing tag of an inner element of the same name.
C4_EndsAtMatchingClose ==
    Succeeded => ~(root0 \in SeqRange(Opens(data)[pos + 1]))

\* C5: every key of a returned map is the path of a descendant element of
\* the matched root that holds text; the root's own name is a key only when
\* a child of that name exists.
C5_KeysAreDescendants ==
    Succeeded =>
        LET o == Opens(data)
            r == root0
        IN  /\ DOMAIN result.m \subseteq
                  {ElementKey(data, o, r, e) : e \in TextElements(data, o, r)}
            /\ startElement \in DOMAIN result.m =>
                  \E e \in Descendants(data, o, r) :
                      data[e].n = startElement /\ Last(o[e]) = r

\* A returned map with the root's name as a key.
C5_Witness ==
    /\ Succeeded
    /\ startElement \in DOMAIN result.m

\* C6: the value stored under a key is the stripped text runs of that path,
\* in document order, one space between two of them; the text of a child
\* element is stored under the child's key and is no part of the parent's
\* value.
C6_RunsJoinedInOrder ==
    ((pc = "sub" \/ Succeeded) /\ DOMAIN attributes # {}) =>
        LET keyed == KeyedRuns(data, root0, pos)
        IN  \A key \in DOMAIN attributes :
                LET runs == {t \in DOMAIN keyed : keyed[t] = key}
                IN  /\ runs # {}
                    /\ attributes[key] = JoinRuns(data, runs)
                    /\ \A t \in DOMAIN keyed \ runs :
                          keyed[t] \in DOMAIN attributes \ {key}

\* Text before and after a child element of the same parent was parsed.
C6_Witness ==
    /\ Succeeded
    /\ LET o == Opens(data)
           keyed == KeyedRuns(data, root0, pos)
       IN  \E t1, t2 \in DOMAIN keyed :
              /\ t1 < t2
              /\ o[t1] = o[t2]
              /\ \E c \in (t1 + 1)..(t2 - 1) :
                    data[c].k = "start" /\ o[c] = o[t1]

\* The last lexeme read is a closing tag named as the root, arriving while
\* a descendant of another name is the innermost open element.
RootCloseOnOpenDescendant ==
    /\ pc = "done"
    /\ pos > 1
    /\ data[pos] = EndTag(startElement)
    /\ LET o == Opens(data)[pos]
           r == root0
       IN  /\ r # 0
           /\ r \in SeqRange(o)
           /\ Last(o) > r
           /\ data[Last(o)].n # startElement

\* C7: a root closing tag that arrives while a descendant is still open is
\* rejected with an error and a nil map.
C7_RootCloseOnOpenDescendantFails ==
    RootCloseOnOpenDescendant => err # "none" /\ result = NilResult

\* Such a closing tag after keys had been accumulated.
C7_Witness == RootCloseOnOpenDescendant /\ DOMAIN attributes # {}

\* C8: the parse matches the first start tag named as the root, and its
\* result is what the lexemes from that tag to the last one read make on
\* their own: neither the elements around the root nor text before or
\* after it show in a key or a value.
C8_OnlyTheFirstRootSubtree ==
    Succeeded =>
        LET r == root0
        IN  /\ r # 0 /\ r < pos
            /\ result.m = FlatMap(SubSeq(data, r, pos), 1, pos - r + 1)

\* A root inside a wrapper element, with text before it and after it.
C8_Witness ==
    /\ Succeeded
    /\ Opens(data)[root0] # <<>>
    /\ DOMAIN result.m # {}
    /\ \E t \in 1..(root0 - 1) : data[t].k = "text" /\ ~IsBlank(data[t].s)
    /\ \E t \in (pos + 1)..Len(data) : data[t].k = "text" /\ ~IsBlank(data[t].s)

\* parseSubTree reads a text run as the lexeme data'[pos'].
ReadsText == pc = "sub" /\ pos' = pos + 1 /\ data'[pos'].k = "text"

\* C9: a text run that is a direct child of the root leaves the map as it is.
C9_RootTextIgnored ==
    [][(ReadsText /\ Last(Opens(data')[pos']) = FirstRoot(data', startElement))
          => attributes' = attributes /\ pc' = "sub"]_vars

\* Non-blank text directly under the root was read after a child's text.
C9_Witness ==
    /\ pc \in {"sub", "done"}
    /\ DOMAIN attributes # {}
    /\ LET o == Opens(data)
           r == root0
       IN  \E t \in (r + 1)..pos :
              /\ data[t].k = "text" /\ ~IsBlank(data[t].s)
              /\ Last(o[t]) = r
              /\ DOMAIN FlatMap(data, r, t - 1) # {}

\* C10: a text run that is blank leaves the map as it is, at any depth.
C10_BlankTextIgnored ==
    [][(ReadsText /\ IsBlank(data'[pos'].s)) => attributes' = attributes]_vars

\* A blank run was read inside an element whose key already had a value.
C10_Witness ==
    /\ pc \in {"sub", "done"}
    /\ LET o == Opens(data)
           r == root0
       IN  \E t \in (r + 1)..pos :
              /\ data[t].k = "text" /\ IsBlank(data[t].s)
              /\ r \in SeqRange(o[t]) /\ Last(o[t]) # r
              /\ Join(PathBelow(data, o, r, t), "/") \in DOMAIN FlatMap(data, r, t - 1)

\* ------------------------------------------------------------ the waits
\* A wait is under way and its last loadVMInfo failed, in the call or in the
\* parsing.  (A wait begins only after a loadVMInfo that succeeded, or none.)
ProbeFailed == conf # NoConf /\ info.err # "none"

\* C11: the first probe of a wait whose RPC call or response parsing fails is
\* its only failing and its last probe: the goroutine passes the error on and
\* refreshes no more, and WaitForState returns an error, never a result.
C11_FailedProbeEndsWait ==
    ProbeFailed =>
        /\ probes.errors = 1
        /\ probes.n = probes.pending + probes.reached + 1
        /\ inflight = 0
        /\ gpc \in {"final", "exit"}
        /\ refreshed.err # "none"
        /\ ~refreshed.done
        /\ mpc = "waited" => waitReturn.err # "none" /\ waitReturn.res = NilResult
        /\ ~(opReturn.returned /\ opReturn.err = "none")

\* A wait for the attribute ended by a response that does not parse, after a
\* pending probe.
C11_Witness ==
    /\ mpc = "waited"
    /\ conf.kind = "attribute"
    /\ probes.pending >= 1
    /\ probes.errors = 1
    /\ info.err = "syntax"
    /\ waitReturn.err = "Could not find VM by ID"

\* A probe of the wait reported Reached: loadVMInfo succeeded and the Refresh
\* closure returned the attributes with a label.
ProbeReached == conf # NoConf /\ probes.reached > 0

\* C12: a probe that reports Reached ends the wait at that probe: no probe
\* follows it, and WaitForState, unless its timeout came first, returns the
\* observed attributes and no error, in waitForVmState for 'running' and for
\* 'done' alike whichever of the two the caller asked for.
C12_ReachedEndsWaitSuccessfully ==
    ProbeReached =>
        /\ probes.reached = 1
        /\ probes.n = probes.pending + 1
        /\ gpc \in {"final", "exit"}
        /\ mpc = "waited" /\ waitReturn.err # "timeout" =>
               waitReturn.err = "none" /\ waitReturn.res = info.result

\* The same for the probes whose label is the one the caller asked for.
ReachedTargetEndsWaitSuccessfully ==
    ProbeReached /\ refreshed.state = conf.target =>
        /\ probes.reached = 1
        /\ probes.n = probes.pending + 1
        /\ gpc \in {"final", "exit"}
        /\ mpc = "waited" /\ waitReturn.err # "timeout" =>
               waitReturn.err = "none" /\ waitReturn.res = info.result

\* A probe of the wait has ended, so that info and refreshed are what the
\* last ended probe loaded and made of it.
ProbeEnded == conf # NoConf /\ probes.pending + probes.errors + probes.reached > 0

\* C13: waitForVmState's probe labels the loaded attributes 'running' exactly
\* when STATE is "3" and LCM_STATE is "3", 'done' exactly when STATE is "6",
\* and pending ('anythingelse', with no data) in every other case, an absent
\* STATE or LCM_STATE included.
C13_VmStateClassified ==
    ProbeEnded /\ conf.kind = "state" /\ info.err = "none" =>
        LET state == MapGet(info.result.m, StateAttribute)
            lcmState == MapGet(info.result.m, LcmStateAttribute)
            running == state = <<"3">> /\ lcmState = <<"3">>
            done == state = <<"6">>
        IN  /\ refreshed.state = "running" <=> running
            /\ refreshed.state = "done" <=> done
            /\ refreshed.state = "anythingelse" <=> ~running /\ ~done
            /\ refreshed.res = (IF running \/ done THEN info.result ELSE NilResult)

C13_Witness ==
    /\ ProbeEnded /\ conf.kind = "state" /\ info.err = "none"
    /\ MapGet(info.result.m, StateAttribute) = <<"3">>
    /\ LcmStateAttribute \notin DOMAIN info.result.m
    /\ refreshed.state = "anythingelse"

\* WaitForState has returned and every probe of the wait reported pending.
OnlyPendingProbes ==
    /\ conf # NoConf /\ mpc = "waited"
    /\ probes.errors = 0 /\ probes.reached = 0

\* C14: a wait none of whose probes reports Reached or an error fails with the
\* timeout error, not before the timeout has elapsed and with no other error,
\* and the error carries the pending state the wait observed last, if any.
C14_OnlyPendingEndsInTimeout ==
    OnlyPendingProbes =>
        /\ waitReturn.err = "timeout"
        /\ now >= Timeout
        /\ lastResult # NoResult => waitReturn.lastState = conf.pending

\* The wait returned on a probe that reported the state asked for: the probes
\* were the pending ones and that one, and its attributes are returned.
ReachedAfterPendingProbes ==
    /\ ProbeReached /\ refreshed.state = conf.target
    /\ mpc = "waited" /\ waitReturn.err # "timeout"
    => /\ probes.n = probes.pending + 1
       /\ waitReturn.err = "none"
       /\ waitReturn.res = info.result

\* Every probe so far reported pending and the timeout has not come: the
\* goroutine goes on to the next probe.
PendingProbesGoOn ==
    /\ conf # NoConf /\ ~cancelled
    /\ probes.errors = 0 /\ probes.reached = 0
    => gpc \notin {"final", "exit"}

\* C15: a wait whose probes report pending n times and then the state asked
\* for, within the timeout, invokes the probe n + 1 times (3 times for
\* pending, pending, reached) and returns the attributes observed: after n
\* pending probes the next probe is invoked, and the reached one is the last.
C15_ProbedOncePerOutcome ==
    /\ ReachedAfterPendingProbes
    /\ PendingProbesGoOn

\* C16: waitForAttribute's probe reports Reached, with the attributes, exactly
\* when the key asked for is among the loaded attributes, whatever its value,
\* and pending exactly when it is not; a failed call is an error, not pending.
C16_AttributeClassified ==
    ProbeEnded /\ conf.kind = "attribute" =>
        IF info.err = "none"
        THEN LET present == conf.target \in DOMAIN info.result.m
             IN  /\ refreshed.state = conf.target <=> present
                 /\ refreshed.state = conf.pending <=> ~present
                 /\ refreshed.res = (IF present THEN info.result ELSE NilResult)
                 /\ present => refreshed.err = "none" /\ refreshed.done
        ELSE /\ refreshed.err # "none"
             /\ refreshed.state # conf.pending
             /\ ~refreshed.done

C16_Witness ==
    /\ ProbeEnded /\ conf.kind = "attribute" /\ info.err = "none"
    /\ MapGet(info.result.m, conf.target) = <<"0">>
    /\ mpc = "waited" /\ waitReturn.err = "none"

\* C17: within a wait the first probe is invoked no sooner than Delay (10 s)
\* after the wait began, and every further probe no sooner than MinTimeout
\* (3 s) after the probe before it was invoked.
C17_ProbesSpacedOut ==
    [][probes'.n = probes.n + 1 =>
          /\ probeAt' >= Delay
          /\ probes.n > 0 => probeAt' - probeAt >= MinTimeout]_vars

C17_Witness ==
    /\ conf # NoConf /\ probes.n = 2 /\ probes.pending = 1
    /\ probeAt = Delay + MinTimeout

\* ------------------------------------------------------------ the operations
\* C18: at every point of an operation at most one call of the client is in
\* flight: a probe's 'one.vm.info' call has returned before the next probe or
\* another call of the operation is issued, also when the wait timed out.
C18_OneCallInFlight == inflight <= 1

C18_Witness ==
    /\ op = "Create" /\ opReturn.returned /\ opReturn.err = "Error waiting"
    /\ waitReturn.err = "timeout"
    /\ gpc = "call" /\ inflight = 1

\* parseResponse(resp, "VM") for every response a call may return.
Parsed == [resp \in {r.resp : r \in InfoResults} |-> ParseOutcome(resp, VmElementName)]

\* A step in which a loadVMInfo returns: that of resourceVmRead or that of a
\* Refresh closure.
loadVMInfoReturns ==
    \/ mpc = "info" /\ mpc' # "info"
    \/ gpc = "call" /\ gpc' # "call"

\* C19: loadVMInfo issues one 'one.vm.info' call and returns when that call
\* does: after a failed call the call's own error with no map, parseResponse
\* not having been invoked; after a successful call exactly what
\* parseResponse(resp, "VM") returns, invoked once.
C19_LoadVMInfoPassesOn ==
    [][loadVMInfoReturns =>
          /\ inflight = 1
          /\ IF info'.call.err # "none"
             THEN /\ info'.err = info'.call.err
                  /\ info'.result = NilResult
                  /\ parses' = parses
             ELSE /\ [result |-> info'.result, err |-> info'.err] = Parsed[info'.call.resp]
                  /\ parses' = parses + 1]_vars

C19_Witness ==
    /\ op = "Read" /\ opReturn.returned
    /\ info.call.err = "error" /\ info.call.resp # <<>>
    /\ opReturn.err = "error" /\ info.result = NilResult /\ parses = 0

\* C20: Read, Exists, Create and Delete never end the process: whatever fails
\* is returned as an error, also a loaded VM info in which a numeric attribute
\* is missing or is no integer.
C20_FailuresAreReturned ==
    op \in {"Read", "Exists", "Create", "Delete"} =>
        /\ ~opReturn.exited
        /\ mpc # "dead"

\* ----------------------------------------------- the user template attributes
\* What the flattened VM info holds under the prefix, a slash and the key,
\* the empty string if nothing.
ObservedUnder(key) ==
    LET composite == "USER_TEMPLATE/" \o key
    IN  IF composite \in DOMAIN observed.m THEN observed.m[composite] ELSE <<>>

\* The key in upper case.
Upper(key) == IF key \in {"attr1", "ATTR1"} THEN "ATTR1" ELSE "ATTR2"

RECURSIVE SplitLines(_)
SplitLines(s) ==
    IF \A i \in 1..Len(s) : s[i] # "\n" THEN <<s>>
    ELSE LET i == CHOOSE i \in 1..Len(s) :
                     s[i] = "\n" /\ \A j \in 1..(i - 1) : s[j] # "\n"
         IN  <<SubSeq(s, 1, i - 1)>> \o SplitLines(SubSeq(s, i + 1, Len(s)))

\* C22: buildUserTemplateAttributesString returns the empty string for an
\* empty or nil map, and otherwise lines separated by newlines, as many as the
\* map has entries, the set of lines being the set of the entries' key=value.
C22_OneLinePerEntry ==
    built.called =>
        IF DOMAIN declared.m = {} THEN built.value = <<>>
        ELSE LET lines == SplitLines(built.value)
             IN  /\ Len(lines) = Cardinality(DOMAIN declared.m)
                 /\ {lines[i] : i \in 1..Len(lines)} =
                       {<<key, "=">> \o declared.m[key] : key \in DOMAIN declared.m}

C22_Witness ==
    /\ built.called
    /\ Cardinality(DOMAIN declared.m) = 3
    /\ built.value[1] = "attr2"
    /\ declared.m["attr1"] = <<"w", "=">>

\* ------------------------------------------------------------ the operations
\* The operation returned without an error.
OpSucceeded == opReturn.returned /\ opReturn.err = "none"

\* C23: resourceVmDelete issues 'one.vm.action' (terminate-hard) at most once,
\* with the ID set and after its Read loaded and saved the VM info, never when
\* the Read failed or the ID is empty; and it returns success only after a
\* probe that followed the terminate call observed STATE "6".
C23_DeleteSucceedsOnDone ==
    op = "Delete" =>
        /\ calls \in {<<>>, <<"one.vm.info">>, <<"one.vm.info", "one.vm.action">>}
        /\ Len(calls) = 2 => id # ""
        /\ mpc = "terminate" =>
               info.err = "none" /\ saveVmInfoToStateReturns(info.result.m)
        /\ OpSucceeded =>
               /\ Len(calls) = 2
               /\ info.err = "none"
               /\ MapGet(info.result.m, StateAttribute) = <<"6">>

C23_Witness ==
    /\ op = "Delete" /\ OpSucceeded
    /\ dstate = 3
    /\ MapGet(info.result.m, StateAttribute) = <<"6">>

\* The last probe observed STATE "3" and LCM_STATE "3".
ObservedRunning ==
    /\ info.err = "none"
    /\ MapGet(info.result.m, StateAttribute) = <<"3">>
    /\ MapGet(info.result.m, LcmStateAttribute) = <<"3">>

\* The steps of resourceVmCreate, in their order.
CreateCalls == <<"one.template.instantiate", "one.vm.chmod", "one.vm.info">>

\* C24: resourceVmCreate issues instantiate, the wait for 'running', the wait
\* for the attribute (if one is asked for), chmod and the read in this order,
\* each only after the one before succeeded: the wait for the attribute begins
\* when a probe has observed STATE "3" and LCM_STATE "3", chmod is called when
\* the last wait's probe has observed what it waited for, nothing follows a
\* failure, and Create succeeds only after the read.
C24_CreateStepsInOrder ==
    /\ [](op = "Create" =>
            /\ calls = SubSeq(CreateCalls, 1, Len(calls))
            /\ OpSucceeded => calls = CreateCalls /\ info.err = "none")
    /\ [][op = "Create" =>
            /\ conf.kind # "state" /\ conf'.kind = "state" =>
                   calls = <<"one.template.instantiate">> /\ mpc = "instantiate"
            /\ conf.kind # "attribute" /\ conf'.kind = "attribute" =>
                   /\ conf.kind = "state" /\ waitReturn.err = "none"
                   /\ ObservedRunning
                   /\ attribute # "" /\ conf'.target = attribute
            /\ Len(calls') = 2 /\ Len(calls) = 1 =>
                   /\ waitReturn.err = "none"
                   /\ IF attribute = ""
                      THEN conf.kind = "state" /\ ObservedRunning
                      ELSE conf.kind = "attribute" /\ attribute \in DOMAIN info.result.m
            /\ opReturn.returned =>
                   calls' = calls /\ probes'.n = probes.n /\ opReturn' = opReturn]_vars

C24_Witness ==
    /\ op = "Create" /\ OpSucceeded /\ attribute = "IP"
    /\ calls = CreateCalls

\* C25: in resourceVmDelete the wait for 'done' ends in success once a probe
\* observes STATE "6", whatever the probes before it observed: as long as no
\* call fails and the timeout has not come, the wait does not end otherwise.
C25_DeleteWaitEndsOnDone ==
    /\ op = "Delete" /\ conf.kind = "state" /\ mpc = "waited"
    /\ probes.errors = 0 /\ waitReturn.err # "timeout"
    => /\ waitReturn.err = "none"
       /\ MapGet(info.result.m, StateAttribute) = <<"6">>

\* ---------------------------------------------------------------- the parser
\* C26: parseResponse returns either a map that is not nil (it may be empty)
\* and no error, or the nil map and an error: never the nil map without an
\* error, and a map that is not empty only without an error.
C26_MapOrError ==
    pc = "done" =>
        /\ \/ err = "none" /\ ~result.nil
           \/ err # "none" /\ result.nil
        /\ result.nil => result.m = EmptyMap
        /\ result.m # EmptyMap => err = "none"

C26_Witness ==
    /\ pc = "done" /\ err = "none"
    /\ ~result.nil /\ result.m = EmptyMap
    /\ \E i \in 1..pos : data[i].k = "text" /\ TrimSpace(data[i].s) # <<>>

\* C27: parseSubTree never indexes an empty path stack: the path stack is the
\* elements open below the root (the decoder's stack above the root it was
\* called for), and an end tag with another name than the root's that the
\* decoder delivers names the top of the path stack, which is popped.
C27_PathIsOpenBelowRoot ==
    /\ [](/\ pc # "panic"
          /\ pc = "sub" =>
                /\ Len(stk) > Len(path)
                /\ stk[Len(stk) - Len(path)] = startElement
                /\ SubSeq(stk, Len(stk) - Len(path) + 1, Len(stk)) = path)
    /\ [][/\ pc = "sub" /\ pc' \in {"sub", "panic"}
           /\ pos' = pos + 1 /\ data'[pos'].k = "end"
           => /\ path # <<>>
              /\ Last(path) = data'[pos'].n
              /\ path' = SubSeq(path, 1, Len(path) - 1)]_vars

C27_Witness ==
    /\ pc = "sub" /\ pos >= 4
    /\ data[pos].k = "end" /\ data[pos - 1].k = "end"
    /\ path = <<"E">>

\* ------------------------------------------------------------ the operations
\* The error resourceVmRead returned, when it returned.
ReadError == IF id = "" THEN "VM ID not set" ELSE info.err

\* C28: resourceVmExists returns true exactly when the ID is set, its Read
\* returned no error and the state it read is not 6; when the Read returned an
\* error it returns false and that error, and for a VM in state 6 false and
\* no error.
C28_ExistsUnlessDone ==
    op = "Exists" /\ opReturn.returned =>
        /\ opReturn.exists <=> (id # "" /\ ReadError = "none" /\ dstate # 6)
        /\ ReadError # "none" => ~opReturn.exists /\ opReturn.err = ReadError
        /\ ReadError = "none" =>
               /\ opReturn.err = "none"
               /\ dstate = Atoi(MapGet(info.result.m, StateAttribute))
        /\ calls = (IF id = "" THEN <<>> ELSE <<"one.vm.info">>)

C28_Witness ==
    /\ op = "Exists" /\ opReturn.returned
    /\ ReadError = "none" /\ dstate = 6
    /\ ~opReturn.exists /\ opReturn.err = "none"

\* The calls of a resourceVmUpdate none of whose calls fails.
UpdateCalls ==
    (IF "permissions" \in changed THEN <<"one.vm.chmod">> ELSE <<>>)
        \o (IF "user_template_attributes" \in changed THEN <<"one.vm.update">> ELSE <<>>)

InstantiateFailed ==
    /\ op = "Create" /\ opReturn.returned /\ opReturn.err = "error"
    /\ calls = <<"one.template.instantiate">>

\* C30: a resourceVmCreate that fails after its instantiate call succeeded,
\* in a wait, in chmod or in the read, leaves the ID set that the instantiate
\* response gave: no step after that call changes the ID; after a failed
\* Create the ID is unset exactly when the instantiate call failed, and then
\* no other call was issued.
C30_IdStaysSet ==
    /\ [](op = "Create" /\ opReturn.returned /\ opReturn.err # "none" =>
            /\ id = "" <=> InstantiateFailed
            /\ InstantiateFailed => probes = NoProbes /\ parses = 0 /\ inflight = 0)
    /\ [][op = "Create" /\ mpc # "instantiate" => id' = id]_vars

C30_Witness ==
    /\ op = "Create" /\ opReturn.returned /\ opReturn.err = "error"
    /\ calls = <<"one.template.instantiate", "one.vm.chmod">>
    /\ id = "1"

\* A text that is not empty and neither begins nor ends with white space.
SolidText(v) == v # <<>> /\ ~IsSpace(v[1]) /\ ~IsSpace(v[Len(v)])

\* The IP element of the response that was loaded holds only white space.
BlankIpLoaded ==
    /\ info.call.err = "none"
    /\ \E j \in 1..(Len(info.call.resp) - 2) :
           /\ info.call.resp[j] = StartTag("IP")
           /\ info.call.resp[j + 1].k = "text" /\ IsBlank(info.call.resp[j + 1].s)
           /\ info.call.resp[j + 2] = EndTag("IP")

\* C31: in every map parseResponse returned, every key is non-empty and every
\* value is a non-empty text without leading or trailing white space; so an
\* element of only white space does not make its key present, and
\* waitForAttribute's probe reaches the target only with the attribute
\* holding such a text.
C31_ValuesAreSolidText ==
    /\ info.err = "none" =>
           \A key \in DOMAIN info.result.m :
              key # "" /\ SolidText(info.result.m[key])
    /\ BlankIpLoaded /\ info.err = "none" => "IP" \notin DOMAIN info.result.m
    /\ ProbeReached /\ conf.kind = "attribute" =>
           SolidText(MapGet(info.result.m, conf.target))

\* A wait for the attribute ended on the IP read from two runs with white
\* space around them.
C31_Witness ==
    /\ ProbeReached /\ conf.kind = "attribute" /\ conf.target = "IP"
    /\ info.call.resp = VmInfoIpInRuns
    /\ info.result.m["IP"] = <<"1", " ", "0">>
    /\ mpc = "waited" /\ waitReturn.err = "none"


====
